---- MODULE Spec2Model ----
(***************************************************************************)
(* A model of app.py: the Photo table, the filename classifier             *)
(* auto_organize_photo, and the routes index (GET /) and upload_photo      *)
(* (GET and POST /upload).                                                 *)
(*                                                                         *)
(* Filenames are TLA+ strings; lower() and the substring test "in" are     *)
(* computed character by character.  Time is the reading of                *)
(* datetime.utcnow, a natural number that the environment advances and     *)
(* that is assumed never to step backwards.                                *)
(***************************************************************************)
EXTENDS Integers, Sequences, FiniteSets, TLC

VARIABLES
    photos,     \* the committed rows of table photo, in insertion order
    now,        \* the reading of datetime.utcnow
    console,    \* lines printed to the console
    request,    \* the request handled last
    response,   \* the response to it
    successes,  \* number of requests that reached the success redirect
    args,       \* arguments of a direct call of auto_organize_photo
    result      \* what that call returned

vars == <<photos, now, console, request, response, successes, args, result>>

------------------------------------------------------------------------------
(* Bounds *)

MaxPhotos == 2      \* rows the table may hold
MaxTime == 2        \* last clock reading
MaxParts == 2       \* fragments concatenated into a filename for direct calls

------------------------------------------------------------------------------
(* Strings *)

Uppers == "ABCDEFGHIJKLMNOPQRSTUVWXYZ"
Lowers == "abcdefghijklmnopqrstuvwxyz"

CharAt(s, i) == SubSeq(s, i, i)

\* str.lower() on one character: A-Z map to a-z, everything else is kept
lower_char(c) ==
    IF \E k \in 1..Len(Uppers) : CharAt(Uppers, k) = c
    THEN CharAt(Lowers, CHOOSE k \in 1..Len(Uppers) : CharAt(Uppers, k) = c)
    ELSE c

\* lower() forgotten: the filename is compared as typed
lower_as_typed(s) == s

RECURSIVE lower(_)
lower(s) ==
    IF s = "" THEN ""
    ELSE lower_char(CharAt(s, 1)) \o lower(SubSeq(s, 2, Len(s)))

\* Python's  sub in s  for strings
contains(sub, s) ==
    \E i \in 1..(Len(s) - Len(sub) + 1) : SubSeq(s, i, i + Len(sub) - 1) = sub

\* sep.join(items)
RECURSIVE join(_, _)
join(sep, items) ==
    IF items = <<>> THEN ""
    ELSE IF Len(items) = 1 THEN items[1]
    ELSE items[1] \o sep \o join(sep, Tail(items))

------------------------------------------------------------------------------
(* auto_organize_photo *)

\* the city rule tested before the others
organize_city_first(image_file_stream, original_filename, raises) ==
    LET filename_lower == lower(original_filename)
        category ==
            IF raises THEN "Uncategorized"
            ELSE IF contains("city", filename_lower) THEN "Cityscapes"
            ELSE IF contains("nature", filename_lower) THEN "Nature"
            ELSE IF contains("people", filename_lower)
                    \/ contains("person", filename_lower) THEN "People"
            ELSE "Other"
    IN  <<category, join(", ", <<>>)>>

\* the category also emitted as a tag
organize_with_tags(image_file_stream, original_filename, raises) ==
    LET filename_lower == lower(original_filename)
        category ==
            IF raises THEN "Uncategorized"
            ELSE IF contains("nature", filename_lower) THEN "Nature"
            ELSE IF contains("people", filename_lower)
                    \/ contains("person", filename_lower) THEN "People"
            ELSE IF contains("city", filename_lower) THEN "Cityscapes"
            ELSE "Other"
        tags == IF raises THEN <<>> ELSE <<lower(category)>>
    IN  <<category, join(", ", tags)>>

\* category assigned before the statement that raises
organize_assigns_early(image_file_stream, original_filename, raises) ==
    LET filename_lower == lower(original_filename)
        category ==
            IF contains("nature", filename_lower) THEN "Nature"
            ELSE IF contains("people", filename_lower)
                    \/ contains("person", filename_lower) THEN "People"
            ELSE IF contains("city", filename_lower) THEN "Cityscapes"
            ELSE "Other"
    IN  <<category, join(", ", <<>>)>>

\* raises: an exception is raised while the try body runs (lines 67-75);
\* the body assigns category only in its last statement, so a raise leaves
\* the default in place.
auto_organize_photo(image_file_stream, original_filename, raises) ==
    LET tags == <<>>
        filename_lower == lower(original_filename)
        category ==
            IF raises THEN "Uncategorized"
            ELSE IF contains("nature", filename_lower) THEN "Nature"
            ELSE IF contains("people", filename_lower)
                    \/ contains("person", filename_lower) THEN "People"
            ELSE IF contains("city", filename_lower) THEN "Cityscapes"
            ELSE "Other"
    IN  <<category, join(", ", tags)>>

\* the line printed by the except clause
ErrorLine == "Error during auto-organization"

------------------------------------------------------------------------------
(* Inputs *)

Fragments ==
    {"Nature", "NATURE", "nature", "people", "Person", "city", "CITY",
     "nat", "ure", "per", "son", "cit", "_Hike", ".jpg", "random", ".png"}

RECURSIVE Concat(_)
Concat(k) ==
    IF k = 0 THEN {""}
    ELSE LET shorter == Concat(k - 1)
         IN  shorter \cup {a \o b : a \in shorter, b \in Fragments}

\* filenames for direct calls of auto_organize_photo
Names == Concat(MaxParts)

\* filenames a client submits with the upload form
UploadNames == {"", "Nature_Hike.jpg", "random.png", "PERSON_city.gif"}

NoFiles == [f \in {} |-> ""]

\* request.files: no file part at all, a part under another field name, or
\* the part "file" with a client-supplied filename
Files ==
    {NoFiles}
    \cup {[f \in {"photo"} |-> [filename |-> "random.png"]]}
    \cup {[f \in {"file"} |-> [filename |-> n]] : n \in UploadNames}

------------------------------------------------------------------------------
(* The Photo model and the table *)

PlaceholderUrl == "https://via.placeholder.com/250x150?text=Your+Image+Here"

\* primary key of the next row: one more than the largest id in the table
next_id(table) ==
    IF table = <<>> THEN 1
    ELSE 1 + CHOOSE m \in {table[i].id : i \in 1..Len(table)} :
                 \A i \in 1..Len(table) : table[i].id <= m

\* the stored name normalised instead of kept as the client sent it
Photo_normalised_name(filename, image_url, category, tags, utcnow) ==
    [filename |-> lower(filename), image_url |-> image_url,
     upload_date |-> utcnow, category |-> category, tags |-> tags]

\* default=datetime.utcnow() : the clock read once, when the class is defined
Photo_default_read_once(filename, image_url, category, tags, utcnow) ==
    [filename |-> filename, image_url |-> image_url,
     upload_date |-> 0, category |-> category, tags |-> tags]

\* Photo(filename=, image_url=, category=, tags=): upload_date is not an
\* argument, its column default reads the clock when the row is inserted
Photo(filename, image_url, category, tags, utcnow) ==
    [filename |-> filename, image_url |-> image_url,
     upload_date |-> utcnow, category |-> category, tags |-> tags]

\* a unique filename: the insert of a name already stored is dropped
add_unique(table, new_photo) ==
    IF \E i \in 1..Len(table) : table[i].filename = new_photo.filename
    THEN table
    ELSE Append(table, [id |-> next_id(table)] @@ new_photo)

\* db.session.merge on the filename: a stored row of that name is overwritten
add_or_replace(table, new_photo) ==
    IF \E i \in 1..Len(table) : table[i].filename = new_photo.filename
    THEN [i \in 1..Len(table) |->
             IF table[i].filename = new_photo.filename
             THEN [id |-> table[i].id] @@ new_photo
             ELSE table[i]]
    ELSE Append(table, [id |-> next_id(table)] @@ new_photo)

\* db.session.add(new_photo); db.session.commit()
add_and_commit(table, new_photo) ==
    Append(table, [id |-> next_id(table)] @@ new_photo)

\* order_by(Photo.upload_date) without desc(): earliest first
order_by_upload_date_asc(table) ==
    LET n == Len(table)
        perms == {p \in [1..n -> 1..n] : \A i, j \in 1..n : i # j => p[i] # p[j]}
        sorted == {p \in perms : \A i \in 1..n : \A j \in 1..n :
                      i < j => table[p[i]].upload_date <= table[p[j]].upload_date}
    IN  {[i \in 1..n |-> table[p[i]]] : p \in sorted}

\* Photo.query.order_by(Photo.upload_date.desc()).all(): every row, latest
\* first; the order of rows with equal upload_date is left to the database
order_by_upload_date_desc(table) ==
    LET n == Len(table)
        perms == {p \in [1..n -> 1..n] : \A i, j \in 1..n : i # j => p[i] # p[j]}
        sorted == {p \in perms : \A i \in 1..n : \A j \in 1..n :
                      i < j => table[p[i]].upload_date >= table[p[j]].upload_date}
    IN  {[i \in 1..n |-> table[p[i]]] : p \in sorted}

------------------------------------------------------------------------------
(* Responses *)

redirect(location, flashed) ==
    [status |-> 302, location |-> location, template |-> "",
     photos |-> <<>>, flash |-> flashed]

render_template(template, rows) ==
    [status |-> 200, location |-> "", template |-> template,
     photos |-> rows, flash |-> <<>>]

Request(method, path, files, raised) ==
    [method |-> method, path |-> path, files |-> files, raised |-> raised]

\* 'file' not in request.files
no_file_part(files) == "file" \notin DOMAIN files

\* the test for an empty filename left out
never_unselected(file) == FALSE

\* file.filename == ''
no_selected_file(file) == file.filename = ""

\* bool(file) of a werkzeug FileStorage: true iff its filename is non-empty
file_is_truthy(file) == file.filename # ""

------------------------------------------------------------------------------
(* Routes *)

Init ==
    /\ photos = <<>>
    /\ now = 0
    /\ console = <<>>
    /\ request = Request("", "", NoFiles, FALSE)
    /\ response = render_template("", <<>>)
    /\ successes = 0
    /\ args = [filename |-> "", raises |-> FALSE]
    /\ result = <<>>

\* GET /
index ==
    /\ \E listing \in order_by_upload_date_desc(photos) :
           response' = render_template("index.html", listing)
    /\ request' = Request("GET", "/", NoFiles, FALSE)
    /\ UNCHANGED <<photos, now, console, successes, args, result>>

\* GET or POST /upload
upload_photo(method, files, raises) ==
    LET accepted == /\ method = "POST"
                    /\ ~no_file_part(files)
                    /\ ~no_selected_file(files["file"])
                    /\ file_is_truthy(files["file"])
        raised == accepted /\ raises
    IN
    /\ accepted => Len(photos) < MaxPhotos
    /\ request' = Request(method, "/upload", files, raised)
    /\ IF method = "POST" /\ no_file_part(files)
       THEN /\ response' = redirect("/upload", <<"No file part">>)
            /\ UNCHANGED <<photos, console, successes>>
       ELSE IF method = "POST" /\ no_selected_file(files["file"])
       THEN /\ response' = redirect("/upload", <<"No selected file">>)
            /\ UNCHANGED <<photos, console, successes>>
       ELSE IF accepted
       THEN LET original_filename == files["file"].filename
                image_public_url == PlaceholderUrl
                organized == auto_organize_photo("stream", original_filename, raises)
                new_photo == Photo(original_filename, image_public_url,
                                   organized[1], organized[2], now)
            IN  /\ photos' = add_and_commit(photos, new_photo)
                /\ console' = IF raised THEN Append(console, ErrorLine) ELSE console
                /\ response' = redirect("/", <<"Photo uploaded successfully!">>)
                /\ successes' = successes + 1
       ELSE /\ response' = render_template("upload.html", <<>>)
            /\ UNCHANGED <<photos, console, successes>>
    /\ UNCHANGED <<now, args, result>>

\* time passes
Tick ==
    /\ now < MaxTime
    /\ now' = now + 1
    /\ UNCHANGED <<photos, console, request, response, successes, args, result>>

Upload == \E method \in {"GET", "POST"}, files \in Files, raises \in BOOLEAN :
              upload_photo(method, files, raises)

Next == index \/ Upload \/ Tick

Spec == Init /\ [][Next]_vars

------------------------------------------------------------------------------
(* Direct calls of auto_organize_photo *)

InitClassify ==
    /\ photos = <<>>
    /\ now = 0
    /\ console = <<>>
    /\ request = Request("", "", NoFiles, FALSE)
    /\ response = render_template("", <<>>)
    /\ successes = 0
    /\ args \in [filename : Names, raises : BOOLEAN]
    /\ result = <<>>

Organize ==
    /\ result = <<>>
    /\ result' = auto_organize_photo("stream", args.filename, args.raises)
    /\ console' = IF args.raises THEN Append(console, ErrorLine) ELSE console
    /\ UNCHANGED <<photos, now, request, response, successes, args>>

NextClassify == Organize

SpecClassify == InitClassify /\ [][NextClassify]_vars

------------------------------------------------------------------------------
(* What the claims speak of *)

\* character c of a filename is letter k of a keyword, in either case
SameLetter(c, k) ==
    \/ c = k
    \/ \E i \in 1..Len(Uppers) : CharAt(Uppers, i) = c /\ CharAt(Lowers, i) = k

\* the filename mentions the keyword, case-insensitively
Mentions(name, kw) ==
    \E i \in 1..Len(name) :
        /\ i + Len(kw) - 1 <= Len(name)
        /\ \A j \in 1..Len(kw) : SameLetter(CharAt(name, i + j - 1), CharAt(kw, j))

Categories == {"Nature", "People", "Cityscapes", "Other"}

\* the direct call has returned without the except clause running
Returned == result # <<>> /\ ~args.raises

\* C1: for every non-empty filename the classifier completes on, the category
\* is Nature if the filename mentions "nature" in any letter case, People if
\* it mentions "people" or "person", Cityscapes if it mentions "city", and
\* Other otherwise.
C1_CategoryByKeyword ==
    (Returned /\ args.filename # "") =>
        result[1] = IF Mentions(args.filename, "nature") THEN "Nature"
                    ELSE IF Mentions(args.filename, "people")
                            \/ Mentions(args.filename, "person") THEN "People"
                    ELSE IF Mentions(args.filename, "city") THEN "Cityscapes"
                    ELSE "Other"

C1_Witness ==
    /\ Returned
    /\ args.filename = "Nature_Hike"
    /\ result[1] = "Nature"

\* C9: the rules are tried in the order nature, people/person, city and the
\* first that matches decides: "nature" beside any other keyword gives
\* Nature, "people" or "person" beside "city" without "nature" gives People,
\* and the call assigns exactly one of the four categories.
C9_FirstMatchWins ==
    Returned =>
        LET name == args.filename
            nature == Mentions(name, "nature")
            people == Mentions(name, "people") \/ Mentions(name, "person")
            city == Mentions(name, "city")
        IN  /\ (nature /\ (people \/ city)) => result[1] = "Nature"
            /\ (~nature /\ people /\ city) => result[1] = "People"
            /\ result[1] \in Categories

C9_Witness ==
    /\ Returned
    /\ args.filename = "CITYPerson"
    /\ result[1] = "People"

\* C7: every stored row has the empty string as its tags.
C7_TagsEmpty ==
    \A i \in 1..Len(photos) : photos[i].tags = ""

C7_Witness ==
    /\ Len(photos) = MaxPhotos
    /\ \E i \in 1..Len(photos) : photos[i].category = "Nature" /\ photos[i].tags = ""
    /\ \E i \in 1..Len(photos) : photos[i].category = "Uncategorized" /\ photos[i].tags = ""

------------------------------------------------------------------------------
(* Requests as the claims name them *)

IsPost(req) == req.method = "POST" /\ req.path = "/upload"

\* a POST /upload with no 'file' field or with an empty filename
Refused(req) ==
    /\ IsPost(req)
    /\ \/ "file" \notin DOMAIN req.files
       \/ req.files["file"].filename = ""

\* a POST /upload carrying a 'file' field with a non-empty filename
Carrying(req) ==
    /\ IsPost(req)
    /\ "file" \in DOMAIN req.files
    /\ req.files["file"].filename # ""

\* a step that serves a request: the clock is read but not advanced
Served == now' = now

Rows(table) == {table[i] : i \in 1..Len(table)}

Last(table) == table[Len(table)]

ToListing == [status |-> 302, location |-> "/", template |-> "",
              photos |-> <<>>, flash |-> <<"Photo uploaded successfully!">>]

\* C2: a POST /upload without a 'file' field, or with an empty filename,
\* leaves the photo table as it was, flashes a message and redirects back to
\* the upload form.
C2_RefusedUploadWritesNothing ==
    [][(Served /\ Refused(request')) =>
          /\ photos' = photos
          /\ response'.status = 302
          /\ response'.location = "/upload"
          /\ response'.location # "/"
          /\ Len(response'.flash) = 1]_vars

C2_Witness ==
    /\ Refused(request)
    /\ "file" \in DOMAIN request.files
    /\ response.flash = <<"No selected file">>
    /\ Len(photos) = 1

\* C3: GET / lists exactly as many entries as there were successful uploads,
\* they are the rows of the table, and each entry's upload_date is at least
\* that of the entry listed after it; with no upload the list is empty.
C3_ListingNewestFirst ==
    (request.method = "GET" /\ request.path = "/") =>
        LET listed == response.photos
        IN  /\ response.template = "index.html"
            /\ Len(listed) = successes
            /\ Rows(listed) = Rows(photos)
            /\ \A i \in 1..(Len(listed) - 1) :
                   listed[i].upload_date >= listed[i + 1].upload_date
            /\ successes = 0 => listed = <<>>

C3_Witness ==
    /\ request.method = "GET" /\ request.path = "/"
    /\ successes = 2
    /\ Len(response.photos) = 2
    /\ response.photos[1].upload_date > response.photos[2].upload_date

\* C4: a POST /upload carrying a 'file' field with a non-empty filename adds
\* exactly one row, named as the client named the file and pointing to the
\* placeholder URL, and answers with the success notice and a redirect to /.
C4_UploadInsertsOneRow ==
    [][(Served /\ Carrying(request')) =>
          /\ Len(photos') = Len(photos) + 1
          /\ SubSeq(photos', 1, Len(photos)) = photos
          /\ Last(photos').filename = request'.files["file"].filename
          /\ Last(photos').image_url = PlaceholderUrl
          /\ Last(photos').image_url # ""
          /\ response' = ToListing]_vars

C4_Witness ==
    /\ Carrying(request)
    /\ request.files["file"].filename = "PERSON_city.gif"
    /\ Len(photos) = 2
    /\ Last(photos).filename = "PERSON_city.gif"
    /\ response = ToListing

\* C5: uploading a file named like a stored photo succeeds and adds a second
\* row: the stored row stays as it is, the new row has the same filename, an
\* id no stored row has, and an upload_date of its own.
C5_DuplicateNamesAccepted ==
    [][(/\ Served
        /\ Carrying(request')
        /\ \E r \in Rows(photos) : r.filename = request'.files["file"].filename) =>
          /\ Len(photos') = Len(photos) + 1
          /\ Rows(photos) \subseteq Rows(photos')
          /\ Last(photos').filename = request'.files["file"].filename
          /\ \A r \in Rows(photos) : r.id # Last(photos').id
          /\ Last(photos').upload_date \in Nat
          /\ response' = ToListing]_vars

C5_Witness ==
    /\ Len(photos) = 2
    /\ photos[1].filename = photos[2].filename
    /\ photos[1].id # photos[2].id
    /\ photos[1].upload_date < photos[2].upload_date

UniqueIds ==
    \A i, j \in 1..Len(photos) : photos[i].id = photos[j].id => i = j

\* C6: the table is append-only: no step removes a row or changes a field of
\* one, ids are unique in every state, and a GET leaves the table unchanged.
C6_AppendOnly ==
    /\ []UniqueIds
    /\ [][/\ Rows(photos) \subseteq Rows(photos')
          /\ Len(photos') >= Len(photos)
          /\ (Served /\ request'.method = "GET") => photos' = photos]_vars

C6_Witness ==
    /\ Len(photos) = 2
    /\ photos[1].filename = photos[2].filename
    /\ request.method = "GET" /\ request.path = "/"
    /\ Len(response.photos) = 2

\* C8: when the classification raises, the upload still succeeds: the row is
\* stored with category Uncategorized and empty tags, the error is printed,
\* and the response is the success notice and the redirect to /.
C8_RaiseFallsBackToDefault ==
    request.raised =>
        /\ Carrying(request)
        /\ photos # <<>>
        /\ Last(photos).filename = request.files["file"].filename
        /\ Last(photos).category = "Uncategorized"
        /\ Last(photos).tags = ""
        /\ console # <<>>
        /\ response = ToListing

C8_Witness ==
    /\ request.raised
    /\ request.files["file"].filename = "Nature_Hike.jpg"
    /\ Last(photos).category = "Uncategorized"
    /\ response = ToListing

====
